---- MODULE Spec2Model ----
(***************************************************************************)
(* ColliderVM toy (src/src/collidervm_toy.rs): the flow-id oracle           *)
(* (calculate_flow_id, find_valid_nonce), the nibble codec                  *)
(* (flow_id_to_prefix_bytes) and the script fragments built from them.      *)
(*                                                                         *)
(* Number representations.  TLC integers are 32-bit signed, so a u32 is     *)
(* kept as two 16-bit limbs <<hi, lo>> (value hi * 65536 + lo) and the one  *)
(* u64 whose upper half matters, 1u64 << l_bits, as four 16-bit limbs, most *)
(* significant first.  The u64 counters of find_valid_nonce (nonce,         *)
(* expected_attempts) stay below 2^31 inside the bounds and are naturals.   *)
(* A byte sequence is a sequence of 0..255, index 1 being byte 0.          *)
(***************************************************************************)
EXTENDS Integers, Sequences, FiniteSets, TLC

VARIABLES
    mode,               \* which entry point this behaviour exercises
    input,              \* find_valid_nonce / calculate_flow_id: input (u32)
    b_bits,             \* b_bits argument
    l_bits,             \* l_bits argument
    hashFn,             \* the hash function in force (a member of HashFamily)
    pc,                 \* position inside find_valid_nonce: idle / loop / done
    call,               \* number of find_valid_nonce calls started so far
    nonce,              \* find_valid_nonce: let mut nonce
    expected_attempts,  \* find_valid_nonce: let expected_attempts
    attempts,           \* calculate_flow_id evaluations made by the current call
    res,                \* result of the latest calculate_flow_id evaluation
    results,            \* what each finished find_valid_nonce call returned
    rate,               \* the H/s figure printed on success (line 135)
    flow_id,            \* flow_id_to_prefix_bytes: flow_id argument (u32)
    out,                \* flow_id_to_prefix_bytes: the nibbles returned, or the panic
    script,             \* the script being executed (bytes)
    ip,                 \* index of the next script byte to execute
    stack,              \* the evaluation stack, top last; elements are byte strings
    status,             \* idle / running / aborted
    scen,               \* what the executed script was built from
    built               \* what each build_script_f*_blake3_locked call returned

oracleVars == <<input, l_bits, hashFn, pc, call, nonce, expected_attempts,
                attempts, res, results, rate>>

codecVars == <<flow_id, out>>

scriptVars == <<script, ip, stack, status, scen, built>>

vars == <<mode, b_bits, oracleVars, codecVars, scriptVars>>

-----------------------------------------------------------------------------
(* Bounds of the model *)

\* find_valid_nonce is explored for b_bits - l_bits <= MaxGap
MaxGap == 1
\* start.elapsed() at the moment of success, in whole seconds: 0..MaxElapsed
MaxElapsed == 1
\* calculate_flow_id alone is explored for l_bits in 0..MaxBits
MaxBits == 33
\* flow_id_to_prefix_bytes is explored for b_bits in 0..MaxCodecBits
MaxCodecBits == 41
\* prefixes given to build_prefix_equalverify have at most MaxPrefixNibbles nibbles
MaxPrefixNibbles == 2

-----------------------------------------------------------------------------
(* Program constants *)

\* nonce > expected_attempts.saturating_mul(100)
AttemptFactor == 100

\* pub const F1_THRESHOLD: u32 = 100
F1_THRESHOLD == 100

\* pub const F2_THRESHOLD: u32 = 200
F2_THRESHOLD == 200

\* opcode bytes of the stack machine (bitcoin::opcodes)
OP_0 == 0
OP_PUSHBYTES_75 == 75
OP_1NEGATE == 79
OP_TRUE == 81
OP_16 == 96
OP_VERIFY == 105
OP_DROP == 117
OP_DUP == 118
OP_EQUALVERIFY == 136
OP_LESSTHAN == 159
OP_GREATERTHAN == 160
OP_CHECKSIGVERIFY == 173
\* the byte that stands for the compiled BLAKE3 fragment (see
\* blake3_compute_script_with_limb below)
OP_BLAKE3 == 255

\* let total_msg_len = 12; let limb_len = 4
total_msg_len == 12
limb_len == 4
\* the nibbles of a 32-byte digest: let to_drop = 64 - needed_nibbles
DIGEST_NIBBLES == 64

None == [none |-> TRUE]

\* the values of the variables an entry point does not use
OracleIdle ==
    /\ input = <<0, 0>> /\ l_bits = 0 /\ hashFn = None /\ pc = "idle" /\ call = 0
    /\ nonce = 0 /\ expected_attempts = 0 /\ attempts = 0 /\ res = None
    /\ results = <<>> /\ rate = 0

CodecIdle == flow_id = <<0, 0>> /\ out = None

ScriptIdle ==
    /\ script = <<>> /\ ip = 1 /\ stack = <<>> /\ status = "idle" /\ scen = None
    /\ built = <<>>

-----------------------------------------------------------------------------
(* Fixed-width arithmetic *)

RECURSIVE Pow2(_)
Pow2(n) == IF n = 0 THEN 1 ELSE 2 * Pow2(n - 1)

\* bitwise AND of two naturals
RECURSIVE BitAnd(_, _)
BitAnd(a, b) ==
    IF a = 0 \/ b = 0 THEN 0
    ELSE (a % 2) * (b % 2) + 2 * BitAnd(a \div 2, b \div 2)

\* u32::MAX
U32_MAX == <<65535, 65535>>

\* u32::from_le_bytes
u32_from_le_bytes(b) == <<b[4] * 256 + b[3], b[2] * 256 + b[1]>>

\* mutant of u32_to_le_bytes: the bytes most significant first
u32_to_be_bytes(v) == <<v[1] \div 256, v[1] % 256, v[2] \div 256, v[2] % 256>>

\* u32::to_le_bytes
u32_to_le_bytes(v) == <<v[2] % 256, v[2] \div 256, v[1] % 256, v[1] \div 256>>

\* a & b on u32
u32_and(a, b) == <<BitAnd(a[1], b[1]), BitAnd(a[2], b[2])>>

\* a < b on u32
u32_lt(a, b) == a[1] < b[1] \/ (a[1] = b[1] /\ a[2] < b[2])

\* 1u32 << n, for n < 32
u32_shl1(n) == IF n < 16 THEN <<0, Pow2(n)>> ELSE <<Pow2(n - 16), 0>>

\* v - 1 on u32, for v > 0
u32_sub1(v) == IF v[2] > 0 THEN <<v[1], v[2] - 1>> ELSE <<v[1] - 1, 65535>>

\* 1u64 << n, for n < 64, as four 16-bit limbs, most significant first
u64_shl1(n) == [i \in 1..4 |-> IF 4 - i = n \div 16 THEN Pow2(n % 16) ELSE 0]

\* (v as u32) for a u64 v: the low 32 bits
u64_as_u32(v) == <<v[3], v[4]>>

\* the k low-order bytes of the natural n, least significant first
RECURSIVE le_bytes(_, _)
le_bytes(n, k) == IF k = 0 THEN <<>> ELSE <<n % 256>> \o le_bytes(n \div 256, k - 1)

\* u64::to_le_bytes of a nonce
u64_to_le_bytes(n) == le_bytes(n, 8)

\* the mathematical value test v < 2^n for a u32 v and any natural n
U32BelowPow2(v, n) == n >= 32 \/ u32_lt(v, u32_shl1(n))

-----------------------------------------------------------------------------
(* The hash primitive.  BLAKE3 is an external function of the 12-byte      *)
(* message; the model checks every member of a family of such functions:   *)
(* one digest for one distinguished message, another digest elsewhere.     *)

\* a 32-byte digest whose first four bytes are given
Digest(b0, b1, b2, b3) == <<b0, b1, b2, b3>> \o [i \in 1..28 |-> (b0 + i) % 256]

\* input.to_le_bytes() followed by nonce.to_le_bytes(): the hashed message
Message(inp, n) == u32_to_le_bytes(inp) \o u64_to_le_bytes(n)

\* Hasher::new(); update(..); update(..); finalize()
Hasher_finalize(msg) == IF msg = hashFn.hitMsg THEN hashFn.onHit ELSE hashFn.other

-----------------------------------------------------------------------------
(* calculate_flow_id *)

\* Ok((prefix_b, hash[0..32]))
Ok(fid, h) == [ok |-> TRUE, flow_id |-> fid, hash |-> h]

\* Err(format!("Hash prefix {} (from H={}) >= {} (out of range)", ..))
ErrOutOfRange == [ok |-> FALSE, err |-> "out of range"]

\* let mask_b = if b_bits >= 32 { u32::MAX } else { (1u32 << b_bits) - 1 }
mask_b(b) == IF b >= 32 THEN U32_MAX ELSE u32_sub1(u32_shl1(b))

\* mutant of max_flow_id: the shift is one bit too far
max_flow_id_shifted(l) == u64_as_u32(u64_shl1(l + 1))

\* let max_flow_id = (1u64 << l_bits) as u32, for l_bits < 64
max_flow_id(l) == u64_as_u32(u64_shl1(l))

calculate_flow_id(inp, n, b, l) ==
    LET hash     == Hasher_finalize(Message(inp, n))
        fourb    == SubSeq(hash, 1, 4)
        hash_u32 == u32_from_le_bytes(fourb)
        prefix_b == u32_and(hash_u32, mask_b(b))
    IN  IF u32_lt(prefix_b, max_flow_id(l))
        THEN Ok(prefix_b, SubSeq(hash, 1, 32))
        ELSE ErrOutOfRange

-----------------------------------------------------------------------------
(* find_valid_nonce *)

\* b_bits.saturating_sub(l_bits)
saturating_sub(a, b) == IF a >= b THEN a - b ELSE 0

\* 1u64.checked_shl(k).unwrap_or(u64::MAX); k < 64 inside the bounds
checked_shl1(k) == Pow2(k)

\* mutant of budget_exceeded: the budget is never enforced
budget_unchecked(n, expected) == FALSE

\* nonce > expected_attempts.saturating_mul(100); no saturation inside the bounds
budget_exceeded(n, expected) == n > expected * AttemptFactor

\* Err("Could not find valid flow_id within 100x expected")
ErrExhausted == [ok |-> FALSE, err |-> "Could not find valid flow_id within 100x expected"]

\* mutant of Found: the nonce is reported after the increment
Found_next_nonce(n, r) ==
    [ok |-> TRUE, nonce |-> n + 1, hash |-> r.hash, flow_id |-> r.flow_id]

\* return Ok((nonce, hash, flow_id))
Found(n, r) == [ok |-> TRUE, nonce |-> n, hash |-> r.hash, flow_id |-> r.flow_id]

\* mutant of Call: the nonce counter survives from the previous call
Call_keeps_nonce ==
    /\ mode = "oracle"
    /\ pc \in {"idle", "done"}
    /\ call < 2
    /\ call' = call + 1
    /\ expected_attempts' = checked_shl1(saturating_sub(b_bits, l_bits))
    /\ attempts' = 0
    /\ res' = None
    /\ pc' = "loop"
    /\ UNCHANGED <<mode, input, b_bits, l_bits, hashFn, results, rate, nonce>>
    /\ UNCHANGED <<codecVars, scriptVars>>

\* entry: expected_attempts is computed, start is read, nonce = 0
Call ==
    /\ mode = "oracle"
    /\ pc \in {"idle", "done"}
    /\ call < 2          \* the two runs that determinism compares
    /\ call' = call + 1
    /\ expected_attempts' = checked_shl1(saturating_sub(b_bits, l_bits))
    /\ nonce' = 0
    /\ attempts' = 0
    /\ res' = None
    /\ pc' = "loop"
    /\ UNCHANGED <<mode, input, b_bits, l_bits, hashFn, results, rate>>
    /\ UNCHANGED <<codecVars, scriptVars>>

\* loop iteration, arm Ok((flow_id, hash)): print the rate and return
LoopOk ==
    /\ mode = "oracle"
    /\ pc = "loop"
    /\ LET r == calculate_flow_id(input, nonce, b_bits, l_bits)
       IN  /\ r.ok
           /\ res' = r
           /\ results' = Append(results, Found(nonce, r))
    /\ \E dt \in 0..MaxElapsed : rate' = IF dt > 0 THEN nonce \div dt ELSE 0
    /\ attempts' = attempts + 1
    /\ pc' = "done"
    /\ UNCHANGED <<mode, input, b_bits, l_bits, hashFn, call, nonce, expected_attempts>>
    /\ UNCHANGED <<codecVars, scriptVars>>

\* mutant of LoopErr: the error of calculate_flow_id is returned to the caller
LoopErr_propagates ==
    /\ mode = "oracle"
    /\ pc = "loop"
    /\ LET r == calculate_flow_id(input, nonce, b_bits, l_bits)
       IN  /\ ~r.ok
           /\ res' = r
           /\ results' = Append(results, r)
    /\ attempts' = attempts + 1
    /\ pc' = "done"
    /\ UNCHANGED <<mode, input, b_bits, l_bits, hashFn, call, nonce,
                   expected_attempts, rate>>
    /\ UNCHANGED <<codecVars, scriptVars>>

\* loop iteration, arm Err(_): next nonce, or give up past the budget
LoopErr ==
    /\ mode = "oracle"
    /\ pc = "loop"
    /\ LET r == calculate_flow_id(input, nonce, b_bits, l_bits)
       IN  /\ ~r.ok
           /\ res' = r
    /\ nonce' = nonce + 1
    /\ attempts' = attempts + 1
    /\ IF budget_exceeded(nonce', expected_attempts)
       THEN /\ results' = Append(results, ErrExhausted)
            /\ pc' = "done"
       ELSE /\ pc' = "loop"
            /\ UNCHANGED results
    /\ UNCHANGED <<mode, input, b_bits, l_bits, hashFn, call, expected_attempts, rate>>
    /\ UNCHANGED <<codecVars, scriptVars>>

\* a direct call of calculate_flow_id
CalcCall ==
    /\ mode = "calc"
    /\ res = None
    /\ res' = calculate_flow_id(input, nonce, b_bits, l_bits)
    /\ attempts' = attempts + 1
    /\ UNCHANGED <<mode, input, b_bits, l_bits, hashFn, pc, call, nonce,
                   expected_attempts, results, rate>>
    /\ UNCHANGED <<codecVars, scriptVars>>

-----------------------------------------------------------------------------
(* flow_id_to_prefix_bytes *)

\* assert!/assert_eq! failure, or a slice index out of range: the call panics
Panic(msg) == [panic |-> msg]

\* nibbles.push((byte >> 4) & 0x0F); nibbles.push(byte & 0x0F)
push_nibbles_low_first(byte) == <<BitAnd(byte, 15), BitAnd(byte \div 16, 15)>>

push_nibbles(byte) == <<BitAnd(byte \div 16, 15), BitAnd(byte, 15)>>

\* for &byte in &flow_id_prefix_bytes { .. }
RECURSIVE to_nibbles(_)
to_nibbles(bytes) ==
    IF bytes = <<>> THEN <<>>
    ELSE push_nibbles(Head(bytes)) \o to_nibbles(Tail(bytes))

\* mutant of flow_id_to_prefix_bytes: the two assertions are missing
flow_id_to_prefix_bytes_unchecked(fid, b) ==
    LET prefix_len == b \div 8
        le4 == u32_to_le_bytes(fid)
    IN  IF prefix_len > 4 THEN Panic("range end index out of range")
        ELSE to_nibbles(SubSeq(le4, 1, prefix_len))

flow_id_to_prefix_bytes(fid, b) ==
    IF ~(b <= 32) THEN Panic("assertion failed: b_bits <= 32")
    ELSE IF b % 8 # 0 THEN Panic("b_bits must be multiple of 8")
    ELSE LET prefix_len == b \div 8
             le4 == u32_to_le_bytes(fid)
             flow_id_prefix_bytes == SubSeq(le4, 1, prefix_len)
         IN  to_nibbles(flow_id_prefix_bytes)

\* a call of flow_id_to_prefix_bytes
CodecCall ==
    /\ mode = "codec"
    /\ out = None
    /\ out' = flow_id_to_prefix_bytes(flow_id, b_bits)
    /\ UNCHANGED <<mode, b_bits, flow_id, oracleVars, scriptVars>>

\* byte values the explored flow ids are made of
CodecBytes == {0, 13, 18, 255}

InitCodec ==
    /\ mode = "codec"
    /\ flow_id \in {u32_from_le_bytes(<<b0, b1, b2, b3>>) : b0, b1, b2, b3 \in CodecBytes}
    /\ b_bits \in 0..MaxCodecBits
    /\ out = None
    /\ OracleIdle
    /\ ScriptIdle

SpecCodec == InitCodec /\ [][CodecCall]_vars

-----------------------------------------------------------------------------
(* Script building: bitcoin::blockdata::script::Builder *)

\* the bytes of the magnitude a, least significant first, none for 0
RECURSIVE magnitude_bytes(_)
magnitude_bytes(a) ==
    IF a = 0 THEN <<>> ELSE <<a % 256>> \o magnitude_bytes(a \div 256)

\* script-number encoding of the integer n: little-endian magnitude, the sign
\* in the top bit of the last byte, one more byte when that bit is taken
scriptint_encode(n) ==
    LET m == magnitude_bytes(IF n < 0 THEN -n ELSE n)
        k == Len(m)
    IN  IF k = 0 THEN <<>>
        ELSE IF m[k] >= 128 THEN m \o <<IF n < 0 THEN 128 ELSE 0>>
        ELSE IF n < 0 THEN [m EXCEPT ![k] = m[k] + 128]
        ELSE m

\* Builder::push_opcode
push_opcode(op) == <<op>>

\* Builder::push_slice, for data shorter than 76 bytes
push_slice(data) == <<Len(data)>> \o data

\* Builder::push_int: OP_1NEGATE, OP_1..OP_16 and OP_0 are single opcodes,
\* any other number is pushed as its script-number bytes
push_int(n) ==
    IF n = -1 \/ n \in 1..16 THEN push_opcode(n - 1 + OP_TRUE)
    ELSE IF n = 0 THEN push_opcode(OP_0)
    ELSE push_slice(scriptint_encode(n))

\* combine_scripts: the raw bytes of the fragments, concatenated in order
RECURSIVE combine_scripts(_)
combine_scripts(fragments) ==
    IF fragments = <<>> THEN <<>>
    ELSE Head(fragments) \o combine_scripts(Tail(fragments))

\* mutant of build_prefix_equalverify: the nibbles are compared in forward order
RECURSIVE build_prefix_equalverify_forward(_)
build_prefix_equalverify_forward(prefix_data) ==
    IF prefix_data = <<>> THEN <<>>
    ELSE push_int(Head(prefix_data)) \o push_opcode(OP_EQUALVERIFY)
         \o build_prefix_equalverify_forward(Tail(prefix_data))

\* build_prefix_equalverify: for each nibble, last first, push it and
\* OP_EQUALVERIFY
RECURSIVE build_prefix_equalverify(_)
build_prefix_equalverify(prefix_data) ==
    IF prefix_data = <<>> THEN <<>>
    ELSE push_int(prefix_data[Len(prefix_data)]) \o push_opcode(OP_EQUALVERIFY)
         \o build_prefix_equalverify(SubSeq(prefix_data, 1, Len(prefix_data) - 1))

\* mutant of x_greater_check: the comparison of the other role
x_greater_check_less ==
    push_opcode(OP_DUP) \o push_int(F1_THRESHOLD)
    \o push_opcode(OP_LESSTHAN) \o push_opcode(OP_VERIFY)

\* build_script_f1_blake3_locked, 2) check x_num > 100
x_greater_check ==
    push_opcode(OP_DUP) \o push_int(F1_THRESHOLD)
    \o push_opcode(OP_GREATERTHAN) \o push_opcode(OP_VERIFY)

\* mutant of x_less_check: the comparison result is dropped, not verified
x_less_check_unverified ==
    push_opcode(OP_DUP) \o push_int(F2_THRESHOLD)
    \o push_opcode(OP_LESSTHAN) \o push_opcode(OP_DROP)

\* build_script_f2_blake3_locked, 2) check x_num < 200
x_less_check ==
    push_opcode(OP_DUP) \o push_int(F2_THRESHOLD)
    \o push_opcode(OP_LESSTHAN) \o push_opcode(OP_VERIFY)

\* mutant of reorder_for_blake: x_num stays on the stack
reorder_for_blake_keeps_x == <<>>

\* 3) Drop x_num and reorder for BLAKE3
reorder_for_blake == push_opcode(OP_DROP)

\* the threshold check of a role
threshold_check(role) == IF role = "F1" THEN x_greater_check ELSE x_less_check

-----------------------------------------------------------------------------
(* Script execution: execute_script_buf runs the stack machine over the     *)
(* bytes; one action per kind of opcode.  A failed check or a missing       *)
(* operand aborts the whole script.                                        *)

Running == status = "running" /\ ip <= Len(script)

\* the script ran to its end without aborting
Finished == status = "running" /\ ip > Len(script)

Top(k) == stack[Len(stack) - k]

Pop(k) == SubSeq(stack, 1, Len(stack) - k)

\* the value of a byte string read as a little-endian magnitude
RECURSIVE le_value(_)
le_value(b) == IF b = <<>> THEN 0 ELSE Head(b) + 256 * le_value(Tail(b))

\* script-number decoding of an operand of at most 4 bytes
scriptint_decode(b) ==
    IF b = <<>> THEN 0
    ELSE LET last == b[Len(b)]
             mag  == le_value(SubSeq(b, 1, Len(b) - 1) \o <<last % 128>>)
         IN  IF last >= 128 THEN -mag ELSE mag

\* an element counts as true unless all its bytes are zero (or negative zero)
cast_to_bool(b) ==
    \E i \in 1..Len(b) : b[i] # 0 /\ ~(i = Len(b) /\ b[i] = 128)

bool_element(t) == IF t THEN <<1>> ELSE <<>>

Abort ==
    /\ status' = "aborted"
    /\ UNCHANGED <<script, ip, stack, scen>>

\* OP_0, OP_PUSHBYTES_1..75, OP_1NEGATE, OP_1..OP_16: push a constant
ExecPush ==
    /\ Running
    /\ LET op == script[ip]
       IN  /\ op \in OP_0..OP_PUSHBYTES_75 \/ op = OP_1NEGATE \/ op \in OP_TRUE..OP_16
           /\ IF op <= OP_PUSHBYTES_75 /\ ip + op > Len(script)
              THEN Abort
              ELSE /\ stack' = Append(stack,
                         IF op <= OP_PUSHBYTES_75 THEN SubSeq(script, ip + 1, ip + op)
                         ELSE IF op = OP_1NEGATE THEN <<129>>
                         ELSE <<op - OP_TRUE + 1>>)
                   /\ ip' = IF op <= OP_PUSHBYTES_75 THEN ip + 1 + op ELSE ip + 1
                   /\ UNCHANGED <<script, status, scen>>
    /\ UNCHANGED <<mode, b_bits, built, oracleVars, codecVars>>

\* OP_DUP: duplicate the top element
ExecDup ==
    /\ Running
    /\ script[ip] = OP_DUP
    /\ IF Len(stack) < 1
       THEN Abort
       ELSE /\ stack' = Append(stack, Top(0))
            /\ ip' = ip + 1
            /\ UNCHANGED <<script, status, scen>>
    /\ UNCHANGED <<mode, b_bits, built, oracleVars, codecVars>>

\* OP_GREATERTHAN, OP_LESSTHAN: pop b, pop a, push a > b (a < b)
ExecCompare ==
    /\ Running
    /\ script[ip] \in {OP_GREATERTHAN, OP_LESSTHAN}
    /\ IF Len(stack) < 2 \/ Len(Top(0)) > 4 \/ Len(Top(1)) > 4
       THEN Abort
       ELSE LET a == scriptint_decode(Top(1))
                b == scriptint_decode(Top(0))
                t == IF script[ip] = OP_GREATERTHAN THEN a > b ELSE a < b
            IN  /\ stack' = Append(Pop(2), bool_element(t))
                /\ ip' = ip + 1
                /\ UNCHANGED <<script, status, scen>>
    /\ UNCHANGED <<mode, b_bits, built, oracleVars, codecVars>>

\* OP_VERIFY: pop the top element, abort unless it is true
ExecVerify ==
    /\ Running
    /\ script[ip] = OP_VERIFY
    /\ IF Len(stack) < 1 \/ ~cast_to_bool(Top(0))
       THEN Abort
       ELSE /\ stack' = Pop(1)
            /\ ip' = ip + 1
            /\ UNCHANGED <<script, status, scen>>
    /\ UNCHANGED <<mode, b_bits, built, oracleVars, codecVars>>

\* OP_DROP: pop the top element
ExecDrop ==
    /\ Running
    /\ script[ip] = OP_DROP
    /\ IF Len(stack) < 1
       THEN Abort
       ELSE /\ stack' = Pop(1)
            /\ ip' = ip + 1
            /\ UNCHANGED <<script, status, scen>>
    /\ UNCHANGED <<mode, b_bits, built, oracleVars, codecVars>>

\* OP_EQUALVERIFY: pop two elements, abort unless they are the same bytes
ExecEqualVerify ==
    /\ Running
    /\ script[ip] = OP_EQUALVERIFY
    /\ IF Len(stack) < 2 \/ Top(0) # Top(1)
       THEN Abort
       ELSE /\ stack' = Pop(2)
            /\ ip' = ip + 1
            /\ UNCHANGED <<script, status, scen>>
    /\ UNCHANGED <<mode, b_bits, built, oracleVars, codecVars>>

\* the witness part of a script, as the tests build it: one push_int per value
RECURSIVE pushed_ints(_)
pushed_ints(values) ==
    IF values = <<>> THEN <<>>
    ELSE <<scriptint_encode(Head(values))>> \o pushed_ints(Tail(values))

\* nibble values the explored prefixes and stacks are made of
NibbleSamples == {0, 1, 13, 15}

\* numeric inputs offered to the threshold checks
ThresholdInputs ==
    {-1, 0, 1, 50, 99, 100, 101, 123, 127, 128, 150, 199, 200, 201, 250, 255, 256, 300}

\* what lies on the stack below the elements a fragment works on
StackBelow == {<<>>, <<7>>, <<7, 13>>}

SeqsUpTo(S, n) == UNION {[1..k -> S] : k \in 0..n}

\* test_encoding: a stack of nibbles q, then build_prefix_equalverify(p)
InitPrefixMatch ==
    \E p \in SeqsUpTo(NibbleSamples, MaxPrefixNibbles), below \in StackBelow :
        \E q \in [1..Len(p) -> NibbleSamples] :
            /\ scen = [kind |-> "prefix", p |-> p, q |-> q, below |-> below]
            /\ script = build_prefix_equalverify(p)
            /\ stack = pushed_ints(below \o q)

\* the numeric input x on the stack, then the role's threshold check and the
\* drop that follows it in the assembled script
InitThreshold ==
    \E role \in {"F1", "F2"}, x \in ThresholdInputs, below \in StackBelow :
        /\ scen = [kind |-> "threshold", role |-> role, x |-> x, below |-> below]
        /\ script = combine_scripts(<<threshold_check(role), reorder_for_blake>>)
        /\ stack = pushed_ints(below \o <<x>>)

InitScript ==
    /\ mode = "script"
    /\ b_bits = 0
    /\ InitPrefixMatch \/ InitThreshold
    /\ ip = 1
    /\ status = "running"
    /\ built = <<>>
    /\ OracleIdle
    /\ CodecIdle

NextScript ==
    ExecPush \/ ExecDup \/ ExecCompare \/ ExecVerify \/ ExecDrop \/ ExecEqualVerify

SpecScript == InitScript /\ [][NextScript]_vars

-----------------------------------------------------------------------------
(* The assembled step scripts: build_script_f1_blake3_locked and            *)
(* build_script_f2_blake3_locked                                            *)

\* Builder::push_key: the 33 bytes of a compressed public key, pushed
push_key(signer_pubkey) == push_slice(signer_pubkey)

\* 1) Check signature
sig_check(signer_pubkey) ==
    push_key(signer_pubkey) \o push_opcode(OP_CHECKSIGVERIFY)

\* blake3_compute_script_with_limb(msg_len, limb), compiled and optimized.
\* Its bytes come from the bitvm crate; here the fragment is the byte
\* OP_BLAKE3 followed by its two parameters.
blake3_compute_script_with_limb(msg_len, limb) == <<OP_BLAKE3, msg_len, limb>>

\* 4) BLAKE3 compute snippet - OPTIMIZED
compute_script == blake3_compute_script_with_limb(total_msg_len, limb_len)

\* mutant of drop_script: one OP_DROP fewer
drop_script_one_short(needed_nibbles) ==
    [i \in 1..(DIGEST_NIBBLES - needed_nibbles - 1) |-> OP_DROP]

\* 5) drop limbs we don't need for prefix check: to_drop times OP_DROP
drop_script(needed_nibbles) ==
    [i \in 1..(DIGEST_NIBBLES - needed_nibbles) |-> OP_DROP]

\* 7) push OP_TRUE
success_script == push_opcode(OP_TRUE)

\* mutant of build_script_f1_blake3_locked: the number of nibbles kept is
\* taken from the b_bits argument
build_script_f1_blake3_locked_by_width(signer_pubkey, flow_id_prefix, unused_b_bits) ==
    IF Len(flow_id_prefix) > DIGEST_NIBBLES
    THEN Panic("attempt to subtract with overflow")
    ELSE combine_scripts(<<sig_check(signer_pubkey), x_greater_check,
                           reorder_for_blake, compute_script,
                           drop_script(unused_b_bits \div 4),
                           build_prefix_equalverify(flow_id_prefix),
                           success_script>>)

\* build_script_f1_blake3_locked.  64 - needed_nibbles is a usize
\* subtraction: for a longer prefix a debug build panics, and a release
\* build wraps and dies allocating the drops; no script comes back.
build_script_f1_blake3_locked(signer_pubkey, flow_id_prefix, unused_b_bits) ==
    LET prefix_len == Len(flow_id_prefix)
        needed_nibbles == prefix_len
    IN  IF needed_nibbles > DIGEST_NIBBLES
        THEN Panic("attempt to subtract with overflow")
        ELSE combine_scripts(<<sig_check(signer_pubkey), x_greater_check,
                               reorder_for_blake, compute_script,
                               drop_script(needed_nibbles),
                               build_prefix_equalverify(flow_id_prefix),
                               success_script>>)

\* build_script_f2_blake3_locked
build_script_f2_blake3_locked(signer_pubkey, flow_id_prefix, unused_b_bits) ==
    LET prefix_len == Len(flow_id_prefix)
        needed_nibbles == prefix_len
    IN  IF needed_nibbles > DIGEST_NIBBLES
        THEN Panic("attempt to subtract with overflow")
        ELSE combine_scripts(<<sig_check(signer_pubkey), x_less_check,
                               reorder_for_blake, compute_script,
                               drop_script(needed_nibbles),
                               build_prefix_equalverify(flow_id_prefix),
                               success_script>>)

\* the builder of a role
build_script(role, signer_pubkey, flow_id_prefix, unused_b_bits) ==
    IF role = "F1"
    THEN build_script_f1_blake3_locked(signer_pubkey, flow_id_prefix, unused_b_bits)
    ELSE build_script_f2_blake3_locked(signer_pubkey, flow_id_prefix, unused_b_bits)

\* a call of the builder of scen.role; what it returns is kept in built
Assemble ==
    /\ mode = "full"
    /\ scen.kind = "assemble"
    /\ Len(built) < 2
    /\ \E b \in {8, 16, 32} :
          /\ b_bits' = b
          /\ built' = Append(built,
                 [b_bits |-> b,
                  script |-> build_script(scen.role, scen.signer_pubkey,
                                          scen.flow_id_prefix, b)])
    /\ UNCHANGED <<mode, script, ip, stack, status, scen, oracleVars, codecVars>>

-----------------------------------------------------------------------------
(* Execution of an assembled script: the two operations the fragments of    *)
(* the previous sections do not use                                        *)

\* the one signature the model takes as valid under a public key; signing
\* and verification are secp256k1's
signature_of(pubkey) == [i \in 1..64 |-> pubkey[2]]

schnorr_verify(sig, pubkey) == sig = signature_of(pubkey)

\* OP_CHECKSIGVERIFY: pop the public key and the signature, abort unless the
\* signature verifies
ExecCheckSigVerify ==
    /\ Running
    /\ script[ip] = OP_CHECKSIGVERIFY
    /\ IF Len(stack) < 2 \/ ~schnorr_verify(Top(1), Top(0))
       THEN Abort
       ELSE /\ stack' = Pop(2)
            /\ ip' = ip + 1
            /\ UNCHANGED <<script, status, scen>>
    /\ UNCHANGED <<mode, b_bits, built, oracleVars, codecVars>>

\* the nibbles of a digest, byte 0 first, the high nibble of a byte first
digest_nibbles(d) ==
    [i \in 1..(2 * Len(d)) |->
        IF i % 2 = 1 THEN d[(i + 1) \div 2] \div 16 ELSE d[i \div 2] % 16]

RECURSIVE limbs_to_bytes(_)
limbs_to_bytes(limbs) ==
    IF limbs = <<>> THEN <<>> ELSE Head(limbs) \o limbs_to_bytes(Tail(limbs))

\* the BLAKE3 fragment: it takes the pushed message, msg_len / limb limbs of
\* limb bytes with the first limb deepest, and leaves the 64 nibbles of the
\* digest, nibble 0 deepest
ExecBlake3 ==
    /\ Running
    /\ script[ip] = OP_BLAKE3
    /\ IF ip + 2 > Len(script)
       THEN Abort
       ELSE LET limb  == script[ip + 2]
                limbs == script[ip + 1] \div limb
            IN  IF \/ Len(stack) < limbs
                   \/ \E k \in 0..(limbs - 1) : Len(Top(k)) # limb
                THEN Abort
                ELSE LET message == limbs_to_bytes(
                             SubSeq(stack, Len(stack) - limbs + 1, Len(stack)))
                     IN  /\ stack' = Pop(limbs)
                              \o pushed_ints(digest_nibbles(Hasher_finalize(message)))
                         /\ ip' = ip + 3
                         /\ UNCHANGED <<script, status, scen>>
    /\ UNCHANGED <<mode, b_bits, built, oracleVars, codecVars>>

\* execute_script_buf(..).success: the script ran to its end and left a true
\* element on top
Success == Finished /\ stack # <<>> /\ cast_to_bool(Top(0))

\* blake3_push_message_script_with_limb(&message, 4): the message as limbs
push_message(message, limb) ==
    [k \in 1..(Len(message) \div limb) |->
        SubSeq(message, (k - 1) * limb + 1, k * limb)]

\* compressed public keys of two signers
SignerKeys ==
    {[i \in 1..33 |-> IF i = 1 THEN 2 ELSE 17],
     [i \in 1..33 |-> IF i = 1 THEN 3 ELSE 34]}

\* the key the executed scripts are locked to
RunKey == [i \in 1..33 |-> IF i = 1 THEN 2 ELSE 17]

\* numeric inputs of the executed scripts, on both sides of each threshold
RunInputs == {50, 100, 123, 200, 250}

\* the input limb of the pushed message
MessageInputs == {<<0, 123>>, <<0, 50>>}

\* prefixes embedded in the executed scripts
RunPrefixes == {<<>>, <<0, 13>>, <<0, 13, 0, 0>>, <<1, 2, 3, 4>>}

\* prefixes given to the builders alone, up to one nibble more than a digest has
AsmPrefixes ==
    {[i \in 1..n |-> (13 * i) % 16] : n \in {0, 1, 2, 4, 8, 63, 64, 65}}
    \cup {<<0, 13, 0, 0>>}

\* the builder of a role called twice with the same key and prefix
InitAssemble ==
    \E role \in {"F1", "F2"}, pk \in SignerKeys, p \in AsmPrefixes :
        /\ scen = [kind |-> "assemble", role |-> role, signer_pubkey |-> pk,
                   flow_id_prefix |-> p]
        /\ hashFn = None
        /\ script = <<>>
        /\ stack = <<>>
        /\ status = "idle"

\* test_prefix_flow_input_from_witness: the message is pushed, then the
\* witness (push_int of the numeric input, push_slice of the signature),
\* then the locking script of the role runs
InitRun ==
    \E role \in {"F1", "F2"}, x_num \in RunInputs, signer \in SignerKeys,
       x_msg \in MessageInputs, r \in {0, 1}, x_hit \in MessageInputs,
       p \in RunPrefixes :
        /\ scen = [kind |-> "run", role |-> role, signer_pubkey |-> RunKey,
                   flow_id_prefix |-> p, x_num |-> x_num,
                   sig |-> signature_of(signer), message |-> Message(x_msg, r)]
        \* the digests have the leading nibbles 0 d 0 0 and 1 2 3 4
        /\ hashFn = [hitMsg |-> Message(x_hit, 0),
                     onHit |-> Digest(13, 0, 0, 0),
                     other |-> Digest(18, 52, 86, 120)]
        /\ script = build_script(role, RunKey, p, 4 * Len(p))
        /\ stack = push_message(scen.message, limb_len)
                     \o <<scriptint_encode(x_num), scen.sig>>
        /\ status = "running"

InitFull ==
    /\ mode = "full"
    /\ b_bits = 0
    /\ InitAssemble \/ InitRun
    /\ ip = 1
    /\ built = <<>>
    /\ input = <<0, 0>> /\ l_bits = 0 /\ pc = "idle" /\ call = 0
    /\ nonce = 0 /\ expected_attempts = 0 /\ attempts = 0 /\ res = None
    /\ results = <<>> /\ rate = 0
    /\ CodecIdle

NextFull ==
    \/ Assemble
    \/ ExecPush \/ ExecDup \/ ExecCompare \/ ExecVerify \/ ExecDrop
    \/ ExecEqualVerify \/ ExecCheckSigVerify \/ ExecBlake3

SpecFull == InitFull /\ [][NextFull]_vars

-----------------------------------------------------------------------------
(* Inputs explored *)

Inputs == {<<0, 123>>, <<1, 50>>}

\* the input of the find_valid_nonce runs (test_prefix_flow: 123u32)
OracleInputs == {<<0, 123>>}

\* the prefix widths of the protocol configuration
PrefixWidths == {8, 16, 24, 32}

\* nonces at which a hash function of the family may change its digest:
\* the first two, and those around the attempt budget of (b, l)
HitNonces(b, l) ==
    {0, 1} \cup {AttemptFactor * Pow2(b - l) + d : d \in {-1, 0, 1}}

\* b_bits values for calculate_flow_id alone: byte-aligned or not, up to 33
CalcWidths == {0, 1, 7, 8, 12, 16, 24, 31, 32, 33}

OracleDigests ==
    {Digest(0, 0, 0, 0), Digest(127, 127, 127, 127), Digest(255, 255, 255, 255)}

CalcDigests ==
    OracleDigests \cup
    {Digest(13, 0, 0, 0), Digest(13, 0, 255, 255), Digest(0, 1, 0, 0),
     Digest(0, 0, 1, 0), Digest(0, 0, 0, 128), Digest(18, 52, 86, 120)}

InitOracle ==
    /\ mode = "oracle"
    /\ input \in OracleInputs
    /\ b_bits \in PrefixWidths
    /\ l_bits \in {l \in 0..32 : l <= b_bits /\ b_bits - l <= MaxGap}
    /\ hashFn \in [hitMsg : {Message(x, n) : x \in Inputs, n \in HitNonces(b_bits, l_bits)},
                   onHit : OracleDigests, other : OracleDigests]
    /\ pc = "idle"
    /\ call = 0
    /\ nonce = 0
    /\ expected_attempts = 0
    /\ attempts = 0
    /\ res = None
    /\ results = <<>>
    /\ rate = 0
    /\ CodecIdle
    /\ ScriptIdle

InitCalc ==
    /\ mode = "calc"
    /\ input \in Inputs
    /\ nonce \in {0, 1}
    /\ b_bits \in CalcWidths
    /\ l_bits \in 0..MaxBits
    /\ hashFn \in [hitMsg : {Message(input, 0)}, onHit : CalcDigests,
                   other : {Digest(255, 255, 255, 255)}]
    /\ pc = "idle"
    /\ call = 0
    /\ expected_attempts = 0
    /\ attempts = 0
    /\ res = None
    /\ results = <<>>
    /\ rate = 0
    /\ CodecIdle
    /\ ScriptIdle

Init == InitOracle \/ InitCalc

Next == Call \/ LoopOk \/ LoopErr \/ CalcCall

Spec == Init /\ [][Next]_vars

-----------------------------------------------------------------------------
(* test_prefix_flow: the oracle, then the codec, then the prefix match      *)

\* the flow is explored for b_bits - l_bits in FlowGaps (the test has 16, 4)
FlowGaps == {0, 1, 4, 12}

\* the search of a flow succeeds at one of the nonces 0..MaxFlowNonce
MaxFlowNonce == 2

FlowDigests ==
    {Digest(0, 0, 0, 0), Digest(13, 0, 0, 0), Digest(18, 52, 86, 120),
     Digest(255, 255, 255, 255)}

InitFlow ==
    /\ mode = "oracle"
    /\ input \in OracleInputs
    /\ b_bits \in PrefixWidths
    /\ l_bits \in {l \in 0..32 : l <= b_bits /\ b_bits - l \in FlowGaps}
    /\ hashFn \in [hitMsg : {Message(input, n) : n \in {0, MaxFlowNonce}},
                   onHit : FlowDigests,
                   other : {Digest(13, 0, 0, 0), Digest(255, 255, 255, 255)}]
    /\ \E n \in 0..MaxFlowNonce : calculate_flow_id(input, n, b_bits, l_bits).ok
    /\ pc = "idle"
    /\ call = 0
    /\ nonce = 0
    /\ expected_attempts = 0
    /\ attempts = 0
    /\ res = None
    /\ results = <<>>
    /\ rate = 0
    /\ CodecIdle
    /\ ScriptIdle

\* let prefix_nibbles = flow_id_to_prefix_bytes(flow_id, b_bits), on the flow
\* id find_valid_nonce returned
EncodePrefix ==
    /\ mode = "oracle"
    /\ pc = "done"
    /\ results[Len(results)].ok
    /\ mode' = "flow"
    /\ flow_id' = results[Len(results)].flow_id
    /\ out' = flow_id_to_prefix_bytes(flow_id', b_bits)
    /\ UNCHANGED <<b_bits, oracleVars, scriptVars>>

\* the stacks offered to the prefix match: the leading nibbles of the digest
\* and the sequences that differ from them in one nibble
MatchStacks(lead) ==
    {lead} \cup UNION {{[lead EXCEPT ![j] = v] :
                             v \in {(lead[j] + 1) % 16, 15 - lead[j]}} :
                         j \in 1..Len(lead)}

\* build_prefix_equalverify(&prefix_nibbles) run on a stack of nibbles
StartMatch ==
    /\ mode = "flow"
    /\ status = "idle"
    /\ out \in Seq(0..15)
    /\ \E q \in MatchStacks(SubSeq(digest_nibbles(results[Len(results)].hash),
                                    1, Len(out))) :
          /\ scen' = [kind |-> "flow", q |-> q]
          /\ stack' = pushed_ints(q)
    /\ script' = build_prefix_equalverify(out)
    /\ ip' = 1
    /\ status' = "running"
    /\ UNCHANGED <<mode, b_bits, built, oracleVars, codecVars>>

NextFlow ==
    \/ Call \/ LoopOk \/ LoopErr
    \/ EncodePrefix \/ StartMatch
    \/ ExecPush \/ ExecEqualVerify

SpecFlow == InitFlow /\ [][NextFlow]_vars

-----------------------------------------------------------------------------
(* Properties of the flow-id oracle *)

\* the attempt budget the specification states: 100 x 2^(B-L)
Budget == AttemptFactor * Pow2(saturating_sub(b_bits, l_bits))

\* the digest of the message (input, nonce) under the hash function in force
DigestNow == Hasher_finalize(Message(input, nonce))

\* v mod 2^b for a u32 v: the candidate ANDed with mask(B) = 2^B - 1
U32ModPow2(v, b) ==
    IF b >= 32 THEN v
    ELSE IF b >= 16 THEN <<v[1] % Pow2(b - 16), v[2]>>
    ELSE <<0, v[2] % Pow2(b)>>

\* first four digest bytes, little-endian, reduced to B bits
MaskedCandidate == U32ModPow2(u32_from_le_bytes(SubSeq(DigestNow, 1, 4)), b_bits)

\* the result of the find_valid_nonce call that returned last
LastResult == results[Len(results)]

\* C1: every flow id returned by calculate_flow_id or by find_valid_nonce is
\* strictly below 2^L
C1_FlowIdBelowPow2L ==
    /\ (res # None /\ res.ok) => U32BelowPow2(res.flow_id, l_bits)
    /\ \A i \in 1..Len(results) :
          results[i].ok => U32BelowPow2(results[i].flow_id, l_bits)

\* C1 witness: find_valid_nonce returned a flow id after at least one retry,
\* for L < B < 32
C1_Witness ==
    /\ mode = "oracle" /\ pc = "done" /\ l_bits < b_bits /\ b_bits < 32
    /\ LastResult.ok /\ LastResult.nonce > 0
    /\ LastResult.flow_id # <<0, 0>>

\* C2 (as claimed): for B <= 32 and L <= B, calculate_flow_id succeeds iff the
\* masked candidate is below 2^L, and then returns exactly the masked candidate
C2_SuccessIffMaskedBelowPow2L ==
    (mode = "calc" /\ res # None /\ b_bits <= 32 /\ l_bits <= b_bits) =>
        /\ res.ok <=> U32BelowPow2(MaskedCandidate, l_bits)
        /\ res.ok => res.flow_id = MaskedCandidate

C4_AtMostBudgetAttempts ==
    mode = "oracle" => attempts <= Budget

\* C5: two runs of find_valid_nonce with the same (x, B, L) return the same
\* result, whatever the clock showed in either run
C5_Deterministic ==
    Len(results) = 2 => results[1] = results[2]

\* C5 witness: both runs returned, each after retries
C5_Witness ==
    /\ Len(results) = 2 /\ results[1].ok /\ results[2].ok
    /\ results[2].nonce > 1

\* C6: find_valid_nonce never returns the per-nonce OutOfRange error: it
\* answers it by moving to the next nonce, and the only error it returns is
\* SearchExhausted, once the nonce has passed the budget
C6_OutOfRangeNotSurfaced ==
    mode = "oracle" =>
        /\ \A i \in 1..Len(results) : ~results[i].ok => results[i] = ErrExhausted
        /\ (pc = "done" /\ ~LastResult.ok) => nonce > Budget
        /\ (pc = "loop" /\ res # None) =>
              /\ res = ErrOutOfRange
              /\ nonce = attempts

\* C6 witness: a call ended with SearchExhausted after OutOfRange evaluations
C6_Witness ==
    /\ mode = "oracle" /\ pc = "done"
    /\ LastResult = ErrExhausted /\ res = ErrOutOfRange

-----------------------------------------------------------------------------
(* Properties of the nibble codec *)

\* byte k (1 = least significant) of the u32 v: (v div 256^(k-1)) mod 256
LeByteOf(v, k) ==
    IF k <= 2 THEN (v[2] \div (IF k = 1 THEN 1 ELSE 256)) % 256
    ELSE (v[1] \div (IF k = 3 THEN 1 ELSE 256)) % 256

IsPanic(o) == DOMAIN o = {"panic"}

\* C7: for B in {0, 8, 16, 24, 32} the codec returns exactly B/4 values in
\* 0..15, and 16 * out[2k-1] + out[2k] is byte k-1 of the flow id's
\* little-endian representation, for each of its first B/8 bytes
C7_NibbleRoundTrip ==
    (mode = "codec" /\ out # None /\ b_bits \in {0, 8, 16, 24, 32}) =>
        /\ ~IsPanic(out)
        /\ Len(out) = b_bits \div 4
        /\ \A i \in 1..Len(out) : out[i] \in 0..15
        /\ \A k \in 1..(b_bits \div 8) :
              16 * out[2 * k - 1] + out[2 * k] = LeByteOf(flow_id, k)

\* C7 witness: all eight nibbles of a flow id whose bytes differ and whose
\* high and low nibbles differ
C7_Witness ==
    /\ mode = "codec" /\ b_bits = 32 /\ out # None
    /\ flow_id = u32_from_le_bytes(<<18, 13, 255, 0>>)
    /\ out = <<1, 2, 0, 13, 15, 15, 0, 0>>

\* C8: the codec panics, returning no nibbles, exactly when B > 32 or B is
\* not a multiple of 8
C8_EncodingPrecondition ==
    (mode = "codec" /\ out # None) =>
        (IsPanic(out) <=> (b_bits > 32 \/ b_bits % 8 # 0))

\* C8 witness: a width below 32 that is not byte-aligned made the call panic
C8_Witness ==
    /\ mode = "codec" /\ out # None /\ b_bits = 12 /\ IsPanic(out)

-----------------------------------------------------------------------------
(* Properties of the script fragments *)

\* the opcodes the stack machine of this model executes
HandledOpcode(op) ==
    \/ op \in OP_0..OP_PUSHBYTES_75 \/ op = OP_1NEGATE \/ op \in OP_TRUE..OP_16
    \/ op \in {OP_DUP, OP_GREATERTHAN, OP_LESSTHAN, OP_VERIFY, OP_DROP, OP_EQUALVERIFY}

\* C9: the fragment build_prefix_equalverify(p), run on a stack whose top
\* Len(p) elements are the nibbles q (bottom to top), compares the top of the
\* stack with the last nibble of p first and pops one element per comparison;
\* it runs to its end, having popped exactly those elements, only if q = p,
\* and it aborts at the first compared position where q differs from p
C9_PrefixMatchAcceptsExactly ==
    (mode = "script" /\ scen.kind = "prefix") =>
        LET p == scen.p
            q == scen.q
            n == Len(p)
            k == (ip - 1) \div 2      \* comparisons passed so far
        IN  /\ Running => HandledOpcode(script[ip])
            /\ (status = "running" /\ ip % 2 = 1) =>
                  /\ stack = pushed_ints(scen.below \o SubSeq(q, 1, n - k))
                  /\ \A j \in (n - k + 1)..n : q[j] = p[j]
            /\ Finished => (q = p /\ stack = pushed_ints(scen.below))
            /\ status = "aborted" => (ip = 2 * k + 2 /\ q[n - k] # p[n - k])

\* C9 witness: a two-nibble prefix with different nibbles was accepted
C9_Witness ==
    /\ mode = "script" /\ scen.kind = "prefix" /\ Finished
    /\ scen.p = <<0, 13>> /\ scen.below = <<7>>

\* the strict predicate of a role on the numeric input
RolePredicate(role, x) == IF role = "F1" THEN x > 100 ELSE x < 200

\* C10: the threshold check of F1 passes iff x > 100 and that of F2 iff
\* x < 200; otherwise it aborts at its OP_VERIFY; when it passes, the stack
\* holds the numeric input unchanged, which the following OP_DROP removes
C10_ThresholdStrict ==
    (mode = "script" /\ scen.kind = "threshold") =>
        LET tl == Len(threshold_check(scen.role))
        IN  /\ Running => HandledOpcode(script[ip])
            /\ status = "aborted" =>
                  (~RolePredicate(scen.role, scen.x) /\ ip = tl /\ script[ip] = OP_VERIFY)
            /\ (status = "running" /\ ip > tl) =>
                  /\ RolePredicate(scen.role, scen.x)
                  /\ ip = tl + 1 => stack = pushed_ints(scen.below \o <<scen.x>>)
                  /\ ip = tl + 2 => stack = pushed_ints(scen.below)

\* C10 witness: F1 with x = 123 passed the check and the drop
C10_Witness ==
    /\ mode = "script" /\ scen.kind = "threshold" /\ Finished
    /\ scen.role = "F1" /\ scen.x = 123 /\ scen.below = <<7, 13>>

-----------------------------------------------------------------------------
(* The assembled scripts *)

\* an assembled script is being executed
IsRun == mode = "full" /\ scen.kind = "run"

\* the three conditions of a run: signature, threshold, digest prefix
RunSigValid == scen.sig = signature_of(scen.signer_pubkey)

RunThresholdOK == RolePredicate(scen.role, scen.x_num)

RunDigest == Hasher_finalize(scen.message)

\* nibble i (from 1) of a digest: byte 0 first, high nibble first
NibbleOf(d, i) ==
    IF i % 2 = 1 THEN d[(i + 1) \div 2] \div 16 ELSE d[i \div 2] % 16

RunPrefixMatches ==
    \A i \in 1..Len(scen.flow_id_prefix) :
        scen.flow_id_prefix[i] = NibbleOf(RunDigest, i)

RunAllPass == RunSigValid /\ RunThresholdOK /\ RunPrefixMatches

\* C11: an assembled F1/F2 script is fail-closed: execution gets past the
\* signature check only with a valid signature, past the threshold check
\* only with the role's predicate true, and to the success marker only if,
\* in addition, the leading nibbles of the computed digest equal the embedded
\* prefix; so a run in which one of them fails never succeeds
C11_FailClosed ==
    IsRun =>
        /\ ip > Len(sig_check(scen.signer_pubkey)) => RunSigValid
        /\ ip > Len(sig_check(scen.signer_pubkey)) + Len(threshold_check(scen.role))
              => RunThresholdOK
        /\ (status = "running" /\ ip >= Len(script)) => RunAllPass
        /\ Success => RunAllPass

\* C11 witness: F1 with the numeric input 50, a valid signature and a
\* message that hashes to the prefix has aborted
C11_Witness ==
    /\ IsRun /\ status = "aborted"
    /\ scen.role = "F1" /\ scen.x_num = 50
    /\ RunSigValid /\ RunPrefixMatches /\ scen.flow_id_prefix = <<0, 13, 0, 0>>

\* C12: for a successful oracle result with B in {8, 16, 24, 32} and L <= B,
\* flow_id_to_prefix_bytes(flow_id, B) is the leading B/4 nibbles of the
\* returned digest (bytes 0 .. B/8 - 1, high nibble first); the prefix-match
\* fragment built from it accepts those nibbles and rejects every sequence
\* that differs from them in one nibble
C12_PrefixIsDigestLead ==
    mode = "flow" =>
        LET lead == [i \in 1..(b_bits \div 4) |-> NibbleOf(LastResult.hash, i)]
        IN  /\ out = lead
            /\ scen # None =>
                  /\ Finished => scen.q = lead
                  /\ status = "aborted" => scen.q # lead

\* C12 witness: B = 16, L = 4; the search succeeded after a failed nonce, the
\* prefix is 0 d 0 0 and the fragment accepted the digest's leading nibbles
C12_Witness ==
    /\ mode = "flow" /\ b_bits = 16 /\ l_bits = 4
    /\ LastResult.nonce > 0
    /\ out = <<0, 13, 0, 0>>
    /\ scen # None /\ Finished /\ stack = <<>>

\* C13: two calls of the builder of a role with the same public key and
\* prefix return the same bytes, whatever b_bits each call was given
C13_AssemblerPure ==
    (mode = "full" /\ scen.kind = "assemble") =>
        \A i, j \in 1..Len(built) : built[i].script = built[j].script

\* C13 witness: F1 was built twice for one key and the prefix 0 d 0 0, with
\* b_bits 8 and then 32, and returned a script
C13_Witness ==
    /\ mode = "full" /\ scen.kind = "assemble" /\ Len(built) = 2
    /\ scen.role = "F1" /\ scen.flow_id_prefix = <<0, 13, 0, 0>>
    /\ built[1].b_bits = 8 /\ built[2].b_bits = 32
    /\ built[1].script \in Seq(0..255)

\* the seven parts of a step script, written out byte by byte
Layout(role, pk, p) ==
    <<33>> \o pk \o <<OP_CHECKSIGVERIFY>>
    \o (IF role = "F1" THEN <<OP_DUP, 1, 100, OP_GREATERTHAN, OP_VERIFY>>
                        ELSE <<OP_DUP, 2, 200, 0, OP_LESSTHAN, OP_VERIFY>>)
    \o <<OP_DROP>>
    \o blake3_compute_script_with_limb(12, 4)
    \o [i \in 1..(64 - Len(p)) |-> OP_DROP]
    \o build_prefix_equalverify(p)
    \o <<OP_TRUE>>

\* where the prefix-match fragment starts in the script being executed
PrefixStart == Len(script) - Len(build_prefix_equalverify(scen.flow_id_prefix))

\* C14: for both roles and every prefix of n <= 64 nibbles the script is the
\* concatenation, in this order and with nothing between, of the signature
\* check, the threshold check, one drop, the hash fragment for (12, 4),
\* 64 - n drops, the prefix-match fragment and the success marker; when
\* execution reaches the prefix-match fragment exactly the first n digest
\* nibbles are on the stack
C14_ScriptLayout ==
    /\ (mode = "full" /\ scen.kind = "assemble") =>
          \A i \in 1..Len(built) :
              Len(scen.flow_id_prefix) <= 64 =>
                  built[i].script
                      = Layout(scen.role, scen.signer_pubkey, scen.flow_id_prefix)
    /\ IsRun =>
          /\ script = Layout(scen.role, scen.signer_pubkey, scen.flow_id_prefix)
          /\ (status = "running" /\ ip = PrefixStart) =>
                /\ Len(stack) = Len(scen.flow_id_prefix)
                /\ \A i \in 1..Len(stack) :
                      stack[i] = scriptint_encode(NibbleOf(RunDigest, i))

\* C14 witness: F2 with a four-nibble prefix has dropped 60 nibbles and is
\* about to run the prefix-match fragment
C14_Witness ==
    /\ IsRun /\ status = "running" /\ ip = PrefixStart
    /\ scen.role = "F2" /\ Len(scen.flow_id_prefix) = 4 /\ Len(stack) = 4

-----------------------------------------------------------------------------
(* Order of the search *)

\* C15: find_valid_nonce evaluates the nonces 0, 1, 2, .. once each, in
\* order, and returns at the first success: the returned nonce is the least
\* one for which calculate_flow_id succeeds, and the returned digest and flow
\* id are those of that nonce
C15_FirstSuccess ==
    mode = "oracle" =>
        /\ pc = "loop" =>
              /\ attempts = nonce
              /\ nonce > 0 => ~calculate_flow_id(input, nonce - 1, b_bits, l_bits).ok
        /\ (pc = "done" /\ LastResult.ok) =>
              /\ LastResult.nonce = nonce
              /\ attempts = nonce + 1
              /\ calculate_flow_id(input, nonce, b_bits, l_bits)
                    = Ok(LastResult.flow_id, LastResult.hash)
              /\ \A m \in 0..(nonce - 1) :
                    ~calculate_flow_id(input, m, b_bits, l_bits).ok

\* C15 witness: the second nonce was the first to succeed
C15_Witness ==
    /\ mode = "oracle" /\ pc = "done" /\ call = 1
    /\ LastResult.ok /\ LastResult.nonce = 1

-----------------------------------------------------------------------------
(* The numeric input and the hashed message *)

\* the input limb of the pushed message, as a number
MessageInput == le_value(SubSeq(scen.message, 1, 4))

\* C16: the script compares the numeric input with the threshold and the
\* digest of the pushed message with the prefix, and never the two with each
\* other: a run with a valid signature, a numeric input that passes the
\* threshold and a message that hashes to the prefix succeeds whatever the
\* input limb of the message holds
C16_InputNotBound ==
    (IsRun /\ RunAllPass) =>
        /\ status # "aborted"
        /\ Finished => Success

\* C16 witness: F1 succeeded with the numeric input 123 and a message whose
\* input limb is 50, which fails the threshold of F1
C16_Witness ==
    /\ IsRun /\ Success
    /\ scen.role = "F1" /\ scen.x_num = 123
    /\ MessageInput = 50 /\ ~RolePredicate("F1", MessageInput)
    /\ scen.flow_id_prefix = <<0, 13, 0, 0>>

====
